---- MODULE Spec2Model ----
(***************************************************************************)
(* Model of the transcript scraper (src/app.py): the caption normaliser    *)
(* parse_vtt, sanitize_filename, the per-URL extraction coroutine          *)
(* process_single_url with its response callback, and the batch loop.      *)
(* Strings are sequences of one-character strings.                         *)
(***************************************************************************)
EXTENDS Integers, Sequences, FiniteSets, TLC

\* ------------------------------------------------------------------ bounds
MaxLen == 5         \* longest caption payload drawn for the parse_vtt runs
MaxUrls == 2        \* most input lines in one submission
MaxResp == 2        \* most network responses the page emits in one task
MaxBatches == 2     \* most button presses (submissions) in one session
MaxOver == 2        \* how far around the 150-character cap the drawn titles reach

\* --------------------------------------------------------------- characters
NL == "\n"
SP == " "
\* The one-character string "W" stands for the header word WEBVTT.
WEBVTT == <<"W">>
ARROW == <<"-", "-", ">">>
MARKER == <<">", ">">>
Whitespace == {SP, NL}
Digits == {"1"}
Forbidden == {"\\", "/", "*", "?", ":", "\"", "<", ">", "|"}
PayloadChars == {"a", "1", ">", "-", SP, NL, "W"}

\* ---------------------------------------------------------- string helpers
RECURSIVE LStrip(_)
LStrip(s) ==
    IF s = <<>> THEN <<>>
    ELSE IF Head(s) \in Whitespace THEN LStrip(Tail(s)) ELSE s

RECURSIVE RStrip(_)
RStrip(s) ==
    IF s = <<>> THEN <<>>
    ELSE IF s[Len(s)] \in Whitespace THEN RStrip(SubSeq(s, 1, Len(s) - 1)) ELSE s

\* str.strip()
Strip(s) == RStrip(LStrip(s))

\* sub in s
Contains(s, sub) ==
    \E i \in 1..(Len(s) - Len(sub) + 1) : SubSeq(s, i, i + Len(sub) - 1) = sub

\* str.isdigit(): non-empty and every character a digit
IsDigit(s) == s /= <<>> /\ \A i \in 1..Len(s) : s[i] \in Digits

\* str.split('\n'): always at least one (possibly empty) piece
RECURSIVE SplitNL(_, _)
SplitNL(s, cur) ==
    IF s = <<>> THEN <<cur>>
    ELSE IF Head(s) = NL THEN <<cur>> \o SplitNL(Tail(s), <<>>)
    ELSE SplitNL(Tail(s), Append(cur, Head(s)))

\* "\n".join(lines)
RECURSIVE JoinNL(_)
JoinNL(lines) ==
    IF lines = <<>> THEN <<>>
    ELSE IF Len(lines) = 1 THEN lines[1]
    ELSE lines[1] \o <<NL>> \o JoinNL(Tail(lines))

\* re.sub(r'>>\s*', '', line): leftmost, non-overlapping, greedy whitespace
RECURSIVE SubMarker(_)
SubMarker(s) ==
    IF s = <<>> THEN <<>>
    ELSE IF Len(s) >= 2 /\ SubSeq(s, 1, 2) = MARKER
         THEN SubMarker(LStrip(SubSeq(s, 3, Len(s))))
         ELSE <<Head(s)>> \o SubMarker(Tail(s))

\* the filter of the list comprehension, evaluated on the raw line
KeepLine(line) ==
    /\ Strip(line) /= <<>>
    /\ ~Contains(line, ARROW)
    /\ ~Contains(line, WEBVTT)
    /\ ~IsDigit(Strip(line))

\* the element expression of the list comprehension
CleanLine(line) == Strip(SubMarker(line))

RECURSIVE TranscriptLines(_)
TranscriptLines(lines) ==
    IF lines = <<>> THEN <<>>
    ELSE IF KeepLine(Head(lines))
         THEN <<CleanLine(Head(lines))>> \o TranscriptLines(Tail(lines))
         ELSE TranscriptLines(Tail(lines))

\* variant: only a repeat of the line just before is dropped
RECURSIVE FromKeys_adjacent(_, _)
FromKeys_adjacent(lines, seen) ==
    IF lines = <<>> THEN <<>>
    ELSE IF Head(lines) \in seen THEN FromKeys_adjacent(Tail(lines), seen)
    ELSE <<Head(lines)>> \o FromKeys_adjacent(Tail(lines), {Head(lines)})

\* list(dict.fromkeys(lines)): first occurrences, in order
RECURSIVE FromKeys(_, _)
FromKeys(lines, seen) ==
    IF lines = <<>> THEN <<>>
    ELSE IF Head(lines) \in seen THEN FromKeys(Tail(lines), seen)
    ELSE <<Head(lines)>> \o FromKeys(Tail(lines), seen \cup {Head(lines)})

parse_vtt(vtt_content) ==
    JoinNL(FromKeys(TranscriptLines(SplitNL(Strip(vtt_content), <<>>)), {}))

\* re.sub(r'[\\/*?:"<>|]', "", name)
\* (computed by halves, so that long titles do not nest deeply)
RECURSIVE RemoveForbidden(_)
RemoveForbidden(s) ==
    IF s = <<>> THEN <<>>
    ELSE IF Len(s) = 1 THEN (IF s[1] \in Forbidden THEN <<>> ELSE s)
    ELSE LET h == Len(s) \div 2
         IN  RemoveForbidden(SubSeq(s, 1, h)) \o RemoveForbidden(SubSeq(s, h + 1, Len(s)))

TitleCap == 150
Ellipsis == <<".", ".", ".">>

\* variant: the cut title is returned without the marker
sanitize_filename_noMarker(name) ==
    LET sanitized == Strip(RemoveForbidden(name))
    IN  IF Len(sanitized) > TitleCap
        THEN SubSeq(sanitized, 1, TitleCap)
        ELSE sanitized

sanitize_filename(name) ==
    LET sanitized == Strip(RemoveForbidden(name))
    IN  IF Len(sanitized) > TitleCap
        THEN SubSeq(sanitized, 1, TitleCap) \o Ellipsis
        ELSE sanitized

\* ------------------------------------------------------------- environment
GRANICUS == <<"granicus.com">>
VIEBIT == <<"viebit.com">>
VTT == <<".vtt">>

\* Input lines and response URLs are sequences of fragments.
UrlVG == <<"https://", "viebit.com", "/?ref=", "granicus.com">>
UrlV == <<"https://", "viebit.com", "/watch">>
UrlU == <<"https://", "example.org">>
InputLines == {UrlVG, <<SP>> \o UrlV \o <<SP>>, UrlU, <<SP>>}

RespEnd == <<"/captions/en", ".vtt">>
\* a fragment "?" separates the path of a response URL from its query
RespQuery == <<"/player", "?", "track=en", ".vtt">>
RespOther == <<"/player.js">>
Body1 == <<"W", NL, "1", NL, ">", ">", SP, "a">>
Body2 == <<"a", NL, "1", "a", NL, "a">>
Responses == { [url |-> RespEnd, body |-> Body1], [url |-> RespQuery, body |-> Body2],
               [url |-> RespOther, body |-> Body1] }
Titles == { <<SP, "a", "/", "1">> }
TXT == <<".txt">>

\* The two recipes: each action is fallible (has a timeout=) or a settle delay.
Act(kind, target, timeout) == [kind |-> kind, target |-> target, timeout |-> timeout]
Settle(ms) == [kind |-> "wait_for_timeout", target |-> "", timeout |-> ms]
handle_granicus_url ==
    << Act("click", ".flowplayer", 10000), Settle(500),
       Act("click", ".flowplayer", 10000), Settle(500),
       Act("hover", ".flowplayer", 5000),
       Act("click", ".fp-cc", 10000), Settle(500),
       Act("click", ".fp-menu On", 10000) >>
handle_viebit_url ==
    << Act("click", ".vjs-big-play-button", 20000),
       Act("click", ".vjs-play-control", 10000), Settle(500),
       Act("click", "button.vjs-subs-caps-button", 10000),
       Act("click", ".vjs-menu-item English", 10000) >>
Recipe(b) == IF b = "granicus" THEN handle_granicus_url ELSE handle_viebit_url

\* ".vtt" in response.url
IsCaption(u) == Contains(u, VTT)

\* variant: the two fragment tests in the opposite order
Platform_viebitFirst(u) ==
    IF Contains(u, VIEBIT) THEN "viebit"
    ELSE IF Contains(u, GRANICUS) THEN "granicus"
    ELSE "unknown"

\* the if / elif / else of process_single_url
Platform(u) ==
    IF Contains(u, GRANICUS) THEN "granicus"
    ELSE IF Contains(u, VIEBIT) THEN "viebit"
    ELSE "unknown"

\* [url.strip() for url in urls_text.splitlines() if url.strip()]
RECURSIVE CleanUrls(_)
CleanUrls(lines) ==
    IF lines = <<>> THEN <<>>
    ELSE IF Strip(Head(lines)) /= <<>>
         THEN <<Strip(Head(lines))>> \o CleanUrls(Tail(lines))
         ELSE CleanUrls(Tail(lines))

RECURSIVE SeqsUpTo(_, _)
SeqsUpTo(S, n) ==
    IF n = 0 THEN {<<>>}
    ELSE LET r == SeqsUpTo(S, n - 1)
         IN  r \cup {Append(q, x) : q \in {t \in r : Len(t) = n - 1}, x \in S}

\* values a task can hand back: nothing yet, a (filename, transcript) tuple,
\* None, an exception in flight, an exception that left the function
Val(kind) == [kind |-> kind, filename |-> <<>>, transcript |-> <<>>]
Record(f, t) == [kind |-> "rec", filename |-> f, transcript |-> t]
NoFuture == [st |-> "none", val |-> <<>>]

\* variant: the handler is attached only after the navigation
SetupOrder_late == <<"launch", "newpage", "future", "goto", "attach">>

\* straight-line steps of process_single_url before platform dispatch
SetupOrder == <<"launch", "newpage", "future", "attach", "goto">>


\* -------------------------------------------------------------------- state
VARIABLES
    transcript_files,   \* st.session_state.transcript_files
    urls,               \* the cleaned URL list of the running submission
    idx,                \* position of the for loop in urls (0: no loop)
    batchPc,            \* "idle", "running", "done", "aborted" (script run died)
    nBatches,           \* submissions so far
    outcomes,           \* history: what each task of this submission handed back
    dropped,            \* history: line 122 of the latest submission discarded records
    browsers,           \* Chromium processes alive in the session
    pc,                 \* position of process_single_url
    browserOpen,        \* the Chromium process of this task is alive
    launched,           \* history: p.chromium.launch returned in this task
    navStarted,         \* page.goto has been issued
    handlerOn,          \* page.on("response", handle_response) has run
    fut,                \* vtt_future: st in none/pending/done/cancelled, val
    resp,               \* responses emitted on the page, with their callback state
    branch,             \* platform branch taken: none/granicus/viebit/unknown
    step,               \* recipe actions completed
    waited,             \* history: asyncio.wait_for was entered
    resolvedAt,         \* history: pc at which set_result succeeded
    vtt_content,        \* local of process_single_url
    ret,                \* value or exception on its way out of the function
    failure,            \* history: what raised inside the try block
    errs,               \* log_container.error calls of this task
    vttIn, vttOut, vttAgain, vttPc, \* the parse_vtt runs: input, first and second output
    sanIn, sanOut, sanPc \* the sanitize_filename runs: title and result

taskVars == <<pc, browserOpen, launched, navStarted, handlerOn, fut, resp, branch,
              step, waited, resolvedAt, vtt_content, ret, failure, errs>>
batchVars == <<transcript_files, urls, idx, batchPc, nBatches, outcomes, dropped>>
pureVars == <<vttIn, vttOut, vttAgain, vttPc, sanIn, sanOut, sanPc>>
vars == <<batchVars, taskVars, pureVars, browsers>>

\* a fresh call of process_single_url, about to run its first line
FreshTask ==
    /\ pc' = "log57"
    /\ browserOpen' = FALSE
    /\ launched' = FALSE
    /\ navStarted' = FALSE
    /\ handlerOn' = FALSE
    /\ fut' = NoFuture
    /\ resp' = <<>>
    /\ branch' = "none"
    /\ step' = 0
    /\ waited' = FALSE
    /\ resolvedAt' = "none"
    /\ vtt_content' = <<>>
    /\ ret' = Val("none")
    /\ failure' = "none"
    /\ errs' = <<>>

\* asyncio.run is over: no call of process_single_url exists
TaskGone ==
    /\ pc' = "idle"
    /\ browserOpen' = FALSE
    /\ launched' = FALSE
    /\ navStarted' = FALSE
    /\ handlerOn' = FALSE
    /\ fut' = NoFuture
    /\ resp' = <<>>
    /\ branch' = "none"
    /\ step' = 0
    /\ waited' = FALSE
    /\ resolvedAt' = "none"
    /\ vtt_content' = <<>>
    /\ ret' = Val("none")
    /\ failure' = "none"
    /\ errs' = <<>>

TaskInit ==
    /\ pc = "idle"
    /\ browserOpen = FALSE
    /\ launched = FALSE
    /\ navStarted = FALSE
    /\ handlerOn = FALSE
    /\ fut = NoFuture
    /\ resp = <<>>
    /\ branch = "none"
    /\ step = 0
    /\ waited = FALSE
    /\ resolvedAt = "none"
    /\ vtt_content = <<>>
    /\ ret = Val("none")
    /\ failure = "none"
    /\ errs = <<>>

BatchInit ==
    /\ transcript_files = <<>>
    /\ urls = <<>>
    /\ idx = 0
    /\ batchPc = "idle"
    /\ nBatches = 0
    /\ outcomes = <<>>
    /\ dropped = FALSE
    /\ browsers = 0

VttIdle == vttIn = <<>> /\ vttOut = <<>> /\ vttAgain = <<>> /\ vttPc = "off"
SanIdle == sanIn = <<>> /\ sanOut = <<>> /\ sanPc = "off"
PureIdle == VttIdle /\ SanIdle

Init == BatchInit /\ TaskInit /\ PureIdle

\* the pc that follows setup step p
StepAfter(p) ==
    LET i == CHOOSE k \in 1..Len(SetupOrder) : SetupOrder[k] = p
    IN  IF i = Len(SetupOrder) THEN "dispatch" ELSE SetupOrder[i + 1]

\* an exception raised inside the async with block: the block is left
Raise(cause) ==
    /\ failure' = cause
    /\ ret' = Val("exc")
    /\ pc' = "ctxexit"

\* positions at which process_single_url is suspended in an await, so that
\* the event loop runs response callbacks
Suspended == pc \in {"loading", "recipe", "wait", "title", "close", "unkclose", "ctxexit"}


\* ------------------------------------------------- process_single_url steps
\* line 57, outside the try block
LogStart ==
    /\ pc = "log57"
    /\ pc' = SetupOrder[1]
    /\ UNCHANGED <<browserOpen, launched, navStarted, handlerOn, fut, resp, branch,
                   step, waited, resolvedAt, vtt_content, ret, failure, errs>>
    /\ UNCHANGED <<batchVars, pureVars, browsers>>

\* line 57 raising: nothing encloses it, the exception leaves the function
LogStartRaises ==
    /\ pc = "log57"
    /\ ret' = Val("raised")
    /\ pc' = "raised"
    /\ UNCHANGED <<browserOpen, launched, navStarted, handlerOn, fut, resp, branch,
                   step, waited, resolvedAt, vtt_content, failure, errs>>
    /\ UNCHANGED <<batchVars, pureVars, browsers>>

\* lines 59-60
Launch ==
    /\ pc = "launch"
    /\ browserOpen' = TRUE
    /\ launched' = TRUE
    /\ browsers' = browsers + 1
    /\ pc' = StepAfter("launch")
    /\ UNCHANGED <<navStarted, handlerOn, fut, resp, branch, step, waited,
                   resolvedAt, vtt_content, ret, failure, errs>>
    /\ UNCHANGED <<batchVars, pureVars>>

LaunchFails ==
    /\ pc = "launch"
    /\ Raise("launch")
    /\ UNCHANGED <<browserOpen, launched, navStarted, handlerOn, fut, resp, branch,
                   step, waited, resolvedAt, vtt_content, errs>>
    /\ UNCHANGED <<batchVars, pureVars, browsers>>

\* line 61
NewPage ==
    /\ pc = "newpage"
    /\ pc' = StepAfter("newpage")
    /\ UNCHANGED <<browserOpen, launched, navStarted, handlerOn, fut, resp, branch,
                   step, waited, resolvedAt, vtt_content, ret, failure, errs>>
    /\ UNCHANGED <<batchVars, pureVars, browsers>>

\* line 63
MakeFuture ==
    /\ pc = "future"
    /\ fut' = [st |-> "pending", val |-> <<>>]
    /\ pc' = StepAfter("future")
    /\ UNCHANGED <<browserOpen, launched, navStarted, handlerOn, resp, branch,
                   step, waited, resolvedAt, vtt_content, ret, failure, errs>>
    /\ UNCHANGED <<batchVars, pureVars, browsers>>

\* line 69
AttachHandler ==
    /\ pc = "attach"
    /\ handlerOn' = TRUE
    /\ pc' = StepAfter("attach")
    /\ UNCHANGED <<browserOpen, launched, navStarted, fut, resp, branch,
                   step, waited, resolvedAt, vtt_content, ret, failure, errs>>
    /\ UNCHANGED <<batchVars, pureVars, browsers>>

\* line 70: the navigation is issued, the coroutine waits for the load event
GotoStart ==
    /\ pc = "goto"
    /\ navStarted' = TRUE
    /\ pc' = "loading"
    /\ UNCHANGED <<browserOpen, launched, handlerOn, fut, resp, branch,
                   step, waited, resolvedAt, vtt_content, ret, failure, errs>>
    /\ UNCHANGED <<batchVars, pureVars, browsers>>

GotoLoaded ==
    /\ pc = "loading"
    /\ pc' = StepAfter("goto")
    /\ UNCHANGED <<browserOpen, launched, navStarted, handlerOn, fut, resp, branch,
                   step, waited, resolvedAt, vtt_content, ret, failure, errs>>
    /\ UNCHANGED <<batchVars, pureVars, browsers>>

\* line 70 raising (timeout=45000 elapsed, or the navigation failed)
GotoFails ==
    /\ pc = "loading"
    /\ Raise("nav")
    /\ UNCHANGED <<browserOpen, launched, navStarted, handlerOn, fut, resp, branch,
                   step, waited, resolvedAt, vtt_content, errs>>
    /\ UNCHANGED <<batchVars, pureVars, browsers>>

\* lines 72-79: the branch is chosen; the unknown branch logs its error
Dispatch ==
    /\ pc = "dispatch"
    /\ branch' = Platform(urls[idx])
    /\ IF branch' = "unknown"
       THEN /\ errs' = Append(errs, "unknown")
            /\ pc' = "unkclose"
       ELSE /\ errs' = errs
            /\ pc' = "recipe"
    /\ UNCHANGED <<browserOpen, launched, navStarted, handlerOn, fut, resp,
                   step, waited, resolvedAt, vtt_content, ret, failure>>
    /\ UNCHANGED <<batchVars, pureVars, browsers>>

\* one awaited line of handle_granicus_url / handle_viebit_url completes;
\* after the last one, line 83 logs and line 84 enters asyncio.wait_for
RecipeAction ==
    /\ pc = "recipe"
    /\ step < Len(Recipe(branch))
    /\ step' = step + 1
    /\ IF step' = Len(Recipe(branch))
       THEN pc' = "wait" /\ waited' = TRUE
       ELSE pc' = "recipe" /\ waited' = waited
    /\ UNCHANGED <<browserOpen, launched, navStarted, handlerOn, fut, resp, branch,
                   resolvedAt, vtt_content, ret, failure, errs>>
    /\ UNCHANGED <<batchVars, pureVars, browsers>>

\* variant: the timeout of an action is swallowed and the recipe goes on
ActionTimeout_ignored ==
    /\ pc = "recipe"
    /\ step < Len(Recipe(branch))
    /\ Recipe(branch)[step + 1].kind /= "wait_for_timeout"
    /\ failure' = "action"
    /\ step' = step + 1
    /\ IF step' = Len(Recipe(branch))
       THEN pc' = "wait" /\ waited' = TRUE
       ELSE pc' = "recipe" /\ waited' = waited
    /\ UNCHANGED <<browserOpen, launched, navStarted, handlerOn, fut, resp, branch,
                   resolvedAt, vtt_content, ret, errs>>
    /\ UNCHANGED <<batchVars, pureVars, browsers>>

\* a click or hover does not find its element within timeout=
ActionTimeout ==
    /\ pc = "recipe"
    /\ step < Len(Recipe(branch))
    /\ Recipe(branch)[step + 1].kind /= "wait_for_timeout"
    /\ Raise("action")
    /\ UNCHANGED <<browserOpen, launched, navStarted, handlerOn, fut, resp, branch,
                   step, waited, resolvedAt, vtt_content, errs>>
    /\ UNCHANGED <<batchVars, pureVars, browsers>>

\* lines 84-85: wait_for returns the result of the future
WaitDone ==
    /\ pc = "wait"
    /\ fut.st = "done"
    /\ vtt_content' = fut.val
    /\ pc' = "title"
    /\ UNCHANGED <<browserOpen, launched, navStarted, handlerOn, fut, resp, branch,
                   step, waited, resolvedAt, ret, failure, errs>>
    /\ UNCHANGED <<batchVars, pureVars, browsers>>

\* variant: the timeout is swallowed and the function carries on
WaitTimeout_swallowed ==
    /\ pc = "wait"
    /\ fut.st = "pending"
    /\ fut' = [st |-> "cancelled", val |-> <<>>]
    /\ failure' = "capture"
    /\ pc' = "title"
    /\ UNCHANGED <<browserOpen, launched, navStarted, handlerOn, resp, branch,
                   step, waited, resolvedAt, vtt_content, ret, errs>>
    /\ UNCHANGED <<batchVars, pureVars, browsers>>

\* line 84: timeout=20 elapses first; wait_for cancels the future and raises
WaitTimeout ==
    /\ pc = "wait"
    /\ fut.st = "pending"
    /\ fut' = [st |-> "cancelled", val |-> <<>>]
    /\ Raise("capture")
    /\ UNCHANGED <<browserOpen, launched, navStarted, handlerOn, resp, branch,
                   step, waited, resolvedAt, vtt_content, errs>>
    /\ UNCHANGED <<batchVars, pureVars, browsers>>

\* variant: the captured payload is returned without normalising it
Title_raw ==
    /\ pc = "title"
    /\ \E t \in Titles :
          ret' = Record(sanitize_filename(t) \o TXT, vtt_content)
    /\ pc' = "close"
    /\ UNCHANGED <<browserOpen, launched, navStarted, handlerOn, fut, resp, branch,
                   step, waited, resolvedAt, vtt_content, failure, errs>>
    /\ UNCHANGED <<batchVars, pureVars, browsers>>

\* lines 87-89: the title is read, the tuple of line 92 is built
Title ==
    /\ pc = "title"
    /\ \E t \in Titles :
          ret' = Record(sanitize_filename(t) \o TXT, parse_vtt(vtt_content))
    /\ pc' = "close"
    /\ UNCHANGED <<browserOpen, launched, navStarted, handlerOn, fut, resp, branch,
                   step, waited, resolvedAt, vtt_content, failure, errs>>
    /\ UNCHANGED <<batchVars, pureVars, browsers>>

TitleFails ==
    /\ pc = "title"
    /\ Raise("title")
    /\ UNCHANGED <<browserOpen, launched, navStarted, handlerOn, fut, resp, branch,
                   step, waited, resolvedAt, vtt_content, errs>>
    /\ UNCHANGED <<batchVars, pureVars, browsers>>

\* lines 91-92
Close ==
    /\ pc = "close"
    /\ browserOpen' = FALSE
    /\ browsers' = IF browserOpen THEN browsers - 1 ELSE browsers
    /\ pc' = "ctxexit"
    /\ UNCHANGED <<launched, navStarted, handlerOn, fut, resp, branch,
                   step, waited, resolvedAt, vtt_content, ret, failure, errs>>
    /\ UNCHANGED <<batchVars, pureVars>>

\* lines 80-81
UnknownClose ==
    /\ pc = "unkclose"
    /\ browserOpen' = FALSE
    /\ browsers' = IF browserOpen THEN browsers - 1 ELSE browsers
    /\ ret' = Val("None")
    /\ pc' = "ctxexit"
    /\ UNCHANGED <<launched, navStarted, handlerOn, fut, resp, branch,
                   step, waited, resolvedAt, vtt_content, failure, errs>>
    /\ UNCHANGED <<batchVars, pureVars>>

\* browser.close() raising, at line 80 or line 91
CloseFails ==
    /\ pc \in {"close", "unkclose"}
    /\ Raise("close")
    /\ UNCHANGED <<browserOpen, launched, navStarted, handlerOn, fut, resp, branch,
                   step, waited, resolvedAt, vtt_content, errs>>
    /\ UNCHANGED <<batchVars, pureVars, browsers>>

\* variant: the browser is ended only when the block is left by return
ContextExit_keepOnError ==
    /\ pc = "ctxexit"
    /\ browserOpen' = IF ret.kind = "exc" THEN browserOpen ELSE FALSE
    /\ browsers' = IF ret.kind /= "exc" /\ browserOpen THEN browsers - 1 ELSE browsers
    /\ pc' = IF ret.kind = "exc" THEN "except" ELSE "returned"
    /\ UNCHANGED <<launched, navStarted, handlerOn, fut, resp, branch,
                   step, waited, resolvedAt, vtt_content, ret, failure, errs>>
    /\ UNCHANGED <<batchVars, pureVars>>

\* variant: leaving the block does not end the browser
ContextExit_leak ==
    /\ pc = "ctxexit"
    /\ pc' = IF ret.kind = "exc" THEN "except" ELSE "returned"
    /\ UNCHANGED <<browserOpen, launched, navStarted, handlerOn, fut, resp, branch,
                   step, waited, resolvedAt, vtt_content, ret, failure, errs>>
    /\ UNCHANGED <<batchVars, pureVars, browsers>>

\* line 59, leaving the async with block by return or by exception:
\* Playwright is stopped, which ends the browser it launched
ContextExit ==
    /\ pc = "ctxexit"
    /\ browserOpen' = FALSE
    /\ browsers' = IF browserOpen THEN browsers - 1 ELSE browsers
    /\ pc' = IF ret.kind = "exc" THEN "except" ELSE "returned"
    /\ UNCHANGED <<launched, navStarted, handlerOn, fut, resp, branch,
                   step, waited, resolvedAt, vtt_content, ret, failure, errs>>
    /\ UNCHANGED <<batchVars, pureVars>>

\* lines 94-96
Except ==
    /\ pc = "except"
    /\ errs' = Append(errs, "error")
    /\ ret' = Val("None")
    /\ pc' = "returned"
    /\ UNCHANGED <<browserOpen, launched, navStarted, handlerOn, fut, resp, branch,
                   step, waited, resolvedAt, vtt_content, failure>>
    /\ UNCHANGED <<batchVars, pureVars, browsers>>

\* line 95 raising inside the handler: the new exception leaves the function
ExceptLogRaises ==
    /\ pc = "except"
    /\ ret' = Val("raised")
    /\ pc' = "raised"
    /\ UNCHANGED <<browserOpen, launched, navStarted, handlerOn, fut, resp, branch,
                   step, waited, resolvedAt, vtt_content, failure, errs>>
    /\ UNCHANGED <<batchVars, pureVars, browsers>>

\* ------------------------------------------------ handle_response callbacks
\* line 65: the guard, as evaluated when the callback starts
Guard(u) == IsCaption(u) /\ fut.st = "pending"

\* The page emits a response while the coroutine is suspended.  An attached
\* handler runs lines 65-67 up to the await of response.text().
Respond(r) ==
    /\ Suspended
    /\ navStarted
    /\ browserOpen
    /\ Len(resp) < MaxResp
    /\ resp' = Append(resp,
                 [url |-> r.url, body |-> r.body,
                  st |-> IF ~handlerOn THEN "missed"
                         ELSE IF Guard(r.url) THEN "reading" ELSE "ignored"])
    /\ UNCHANGED <<pc, browserOpen, launched, navStarted, handlerOn, fut, branch,
                   step, waited, resolvedAt, vtt_content, ret, failure, errs>>
    /\ UNCHANGED <<batchVars, pureVars, browsers>>

\* line 67: response.text() of callback i completes and set_result is called;
\* set_result on a future that is done or cancelled raises InvalidStateError
BodyRead(i) ==
    /\ Suspended
    /\ browserOpen
    /\ resp[i].st = "reading"
    /\ IF fut.st = "pending"
       THEN /\ fut' = [st |-> "done", val |-> resp[i].body]
            /\ resp' = [resp EXCEPT ![i].st = "set"]
            /\ resolvedAt' = pc
       ELSE /\ fut' = fut
            /\ resp' = [resp EXCEPT ![i].st = "raised"]
            /\ resolvedAt' = resolvedAt
    /\ UNCHANGED <<pc, browserOpen, launched, navStarted, handlerOn, branch,
                   step, waited, vtt_content, ret, failure, errs>>
    /\ UNCHANGED <<batchVars, pureVars, browsers>>

\* ------------------------------------------------------------ the batch loop
\* "if result:" a two-element tuple is true, None is not
Truthy(v) == v.kind = "rec"

\* lines 117-120: the button is pressed with no usable line
SubmitEmpty(lines) ==
    /\ batchPc /= "running"
    /\ nBatches < MaxBatches
    /\ CleanUrls(lines) = <<>>
    /\ nBatches' = nBatches + 1
    /\ UNCHANGED <<transcript_files, urls, idx, batchPc, outcomes, dropped>>
    /\ UNCHANGED <<taskVars, pureVars, browsers>>

\* variant: line 122 is missing, earlier results are kept
Submit_keep(lines) ==
    /\ batchPc /= "running"
    /\ nBatches < MaxBatches
    /\ CleanUrls(lines) /= <<>>
    /\ nBatches' = nBatches + 1
    /\ urls' = CleanUrls(lines)
    /\ transcript_files' = transcript_files
    /\ dropped' = (transcript_files /= <<>>)
    /\ idx' = 1
    /\ batchPc' = "running"
    /\ outcomes' = <<>>
    /\ FreshTask
    /\ UNCHANGED <<pureVars, browsers>>

\* lines 117-128: the button is pressed, the first task starts
Submit(lines) ==
    /\ batchPc /= "running"
    /\ nBatches < MaxBatches
    /\ CleanUrls(lines) /= <<>>
    /\ nBatches' = nBatches + 1
    /\ urls' = CleanUrls(lines)
    /\ transcript_files' = <<>>
    /\ dropped' = (transcript_files /= <<>>)
    /\ idx' = 1
    /\ batchPc' = "running"
    /\ outcomes' = <<>>
    /\ FreshTask
    /\ UNCHANGED <<pureVars, browsers>>

\* lines 128-132: asyncio.run returns, the result is kept if true, the loop
\* goes on to the next URL or ends
TaskReturns ==
    /\ pc = "returned"
    /\ outcomes' = Append(outcomes, ret)
    /\ transcript_files' = IF Truthy(ret) THEN Append(transcript_files, ret)
                           ELSE transcript_files
    /\ idx' = idx + 1
    /\ IF idx < Len(urls)
       THEN /\ FreshTask
            /\ batchPc' = batchPc
       ELSE /\ batchPc' = "done"
            /\ TaskGone
    /\ UNCHANGED <<urls, nBatches, dropped, pureVars, browsers>>

\* line 128: asyncio.run re-raises what left process_single_url; nothing in
\* the script catches it, the script run ends there
TaskEscapes ==
    /\ pc = "raised"
    /\ outcomes' = Append(outcomes, ret)
    /\ batchPc' = "aborted"
    /\ TaskGone
    /\ UNCHANGED <<transcript_files, urls, idx, nBatches, dropped, pureVars, browsers>>

\* lines 111-115
Clear ==
    /\ batchPc /= "running"
    /\ transcript_files' = <<>>
    /\ UNCHANGED <<urls, idx, batchPc, nBatches, outcomes, dropped>>
    /\ UNCHANGED <<taskVars, pureVars, browsers>>

TaskStep ==
    \/ LogStart \/ LogStartRaises
    \/ Launch \/ LaunchFails \/ NewPage \/ MakeFuture \/ AttachHandler
    \/ GotoStart \/ GotoLoaded \/ GotoFails
    \/ Dispatch \/ RecipeAction \/ ActionTimeout
    \/ WaitDone \/ WaitTimeout
    \/ Title \/ TitleFails
    \/ Close \/ UnknownClose \/ CloseFails
    \/ ContextExit \/ Except \/ ExceptLogRaises

Callback ==
    \/ \E r \in Responses : Respond(r)
    \/ \E i \in 1..Len(resp) : BodyRead(i)

Batch ==
    \/ \E lines \in SeqsUpTo(InputLines, MaxUrls) : Submit(lines)
    \/ \E lines \in SeqsUpTo(InputLines, MaxUrls) : SubmitEmpty(lines)
    \/ TaskReturns
    \/ TaskEscapes
    \/ Clear

Next == TaskStep \/ Callback \/ Batch

Spec == Init /\ [][Next]_vars

\* ------------------------------------------------------- parse_vtt, alone
InitVtt ==
    /\ BatchInit
    /\ TaskInit
    /\ vttIn \in SeqsUpTo(PayloadChars, MaxLen)
    /\ vttOut = <<>>
    /\ vttAgain = <<>>
    /\ vttPc = "in"
    /\ SanIdle

Normalize ==
    /\ vttPc = "in"
    /\ vttOut' = parse_vtt(vttIn)
    /\ vttPc' = "once"
    /\ UNCHANGED <<vttIn, vttAgain, sanIn, sanOut, sanPc, batchVars, taskVars, browsers>>

NormalizeAgain ==
    /\ vttPc = "once"
    /\ vttAgain' = parse_vtt(vttOut)
    /\ vttPc' = "twice"
    /\ UNCHANGED <<vttIn, vttOut, sanIn, sanOut, sanPc, batchVars, taskVars, browsers>>

NextVtt == Normalize \/ NormalizeAgain

SpecVtt == InitVtt /\ [][NextVtt]_vars

\* ------------------------------------------------ sanitize_filename, alone
Rep(c, n) == [i \in 1..n |-> c]

\* titles: a run of letters of a length near 0 or near the cap, with a
\* forbidden character, a blank or nothing in front, inside and behind
SanLens == (0..MaxOver) \cup ((TitleCap - MaxOver)..(TitleCap + MaxOver))
SanTitles ==
    { lead \o Rep("a", n) \o mid \o tail :
        n \in SanLens,
        lead \in {<<>>, <<SP>>, <<"/">>},
        mid \in {<<>>, <<":">>, <<"b">>},
        tail \in {<<>>, <<SP>>, <<"?">>, <<"1">>} }

InitSan ==
    /\ BatchInit
    /\ TaskInit
    /\ VttIdle
    /\ sanIn \in SanTitles
    /\ sanOut = <<>>
    /\ sanPc = "in"

Sanitize ==
    /\ sanPc = "in"
    /\ sanOut' = sanitize_filename(sanIn)
    /\ sanPc' = "done"
    /\ UNCHANGED <<sanIn, vttIn, vttOut, vttAgain, vttPc, batchVars, taskVars, browsers>>

NextSan == Sanitize

SpecSan == InitSan /\ [][NextSan]_vars

\* ------------------------------------------------------------------ claims
\* process_single_url has handed back a value or let an exception out
Finished == pc \in {"returned", "raised"}

\* the callbacks whose set_result took effect
Setters == {i \in 1..Len(resp) : resp[i].st = "set"}

C2_TimeoutIsFinal ==
    (failure = "capture")
        => /\ waited
           /\ step = Len(Recipe(branch))
           /\ fut = [st |-> "cancelled", val |-> <<>>]
           /\ Setters = {}
           /\ ret.kind \in {"exc", "None", "raised"}
           /\ (pc = "returned" => ret = Val("None"))

\* a timed-out task returned None although a caption response arrived after
\* the timeout, and another callback was still reading when it fired
C2_Witness ==
    /\ pc = "returned"
    /\ failure = "capture"
    /\ ret = Val("None")
    /\ \E i \in 1..Len(resp) : IsCaption(resp[i].url) /\ resp[i].st = "ignored"
    /\ \E j \in 1..Len(resp) : resp[j].st = "raised"

\* C3 (as stated): no callback ever calls set_result on a future that is
\* already done, so no callback raises.
C3_ResolvedOnceSilently ==
    \A i \in 1..Len(resp) : resp[i].st /= "raised"

\* C4: when process_single_url is over and a browser had been launched, the
\* browser is closed.
C4_BrowserClosed ==
    (Finished /\ launched) => ~browserOpen

\* a task that launched a browser ended on an exception path
C4_Witness ==
    /\ Finished
    /\ launched
    /\ failure \in {"nav", "action", "capture", "title", "close"}
    /\ ~browserOpen

\* C5 (as stated): no exception ever leaves process_single_url.
C5_NeverRaises ==
    pc /= "raised"

\* C6 (as stated): when the loop of a submission stops, every URL has been
\* processed and the result set holds exactly the records of the successful
\* tasks, in input order.
C6_BatchIsolation ==
    [][(batchPc = "running" /\ batchPc' /= "running")
          => /\ Len(outcomes') = Len(urls')
             /\ transcript_files' = SelectSeq(outcomes', Truthy)]_vars

\* C7: navigation never starts without the handler attached, and no response
\* emitted on the page goes unseen by the handler.
C7_HandlerSeesAll ==
    /\ navStarted => handlerOn
    /\ \A i \in 1..Len(resp) : resp[i].st /= "missed"

\* a caption response emitted during page load is being read by the handler
C7_Witness ==
    /\ pc = "loading"
    /\ \E i \in 1..Len(resp) : IsCaption(resp[i].url) /\ resp[i].st = "reading"

C9_BatchCompletes ==
    (batchPc \notin {"idle", "running"})
        => /\ batchPc = "done"
           /\ idx = Len(urls) + 1

\* C10 (as stated): parse_vtt(parse_vtt(x)) = parse_vtt(x).
C10_Idempotent ==
    (vttPc = "twice") => vttAgain = vttOut

\* the lines of a parse_vtt output; the empty output has none
OutLines(out) == IF out = <<>> THEN <<>> ELSE SplitNL(out, <<>>)

\* C11: the output of parse_vtt lists the surviving lines (kept by the
\* filter, marker stripped, trimmed) without repetition, each distinct one
\* once, ordered by first occurrence among the surviving lines.
C11_FirstOccurrences ==
    (vttPc = "once")
        => LET L == TranscriptLines(SplitNL(Strip(vttIn), <<>>))
               O == IF L = <<>> THEN <<>> ELSE SplitNL(vttOut, <<>>)
               First(x) == CHOOSE k \in 1..Len(L) :
                               L[k] = x /\ \A m \in 1..(k - 1) : L[m] /= x
           IN  /\ (L = <<>>) => vttOut = <<>>
               /\ {O[i] : i \in 1..Len(O)} = {L[i] : i \in 1..Len(L)}
               /\ \A i, j \in 1..Len(O) : i < j => O[i] /= O[j]
               /\ \A i, j \in 1..Len(O) : i < j => First(O[i]) < First(O[j])

\* a line repeated after a different line is given once: a, -, a gives a, -
C11_Witness ==
    /\ vttPc = "once"
    /\ vttIn = <<"a", NL, "-", NL, "a">>
    /\ vttOut = <<"a", NL, "-">>

\* C12 (as stated): no line of the output is blank, purely numeric, a
\* timing-range line or the header, and every text line of the input is in
\* the output.
C12_OnlyCaptionText ==
    (vttPc = "once")
        => LET O == OutLines(vttOut)
               I == SplitNL(Strip(vttIn), <<>>)
           IN  /\ \A i \in 1..Len(O) :
                     /\ Strip(O[i]) /= <<>>
                     /\ ~IsDigit(Strip(O[i]))
                     /\ ~Contains(O[i], ARROW)
                     /\ ~Contains(O[i], WEBVTT)
               /\ \A k \in 1..Len(I) :
                     ( /\ Strip(I[k]) /= <<>>
                       /\ ~IsDigit(Strip(I[k]))
                       /\ ~Contains(I[k], ARROW)
                       /\ ~Contains(I[k], WEBVTT)
                       /\ ~Contains(I[k], MARKER) )
                        => \E i \in 1..Len(O) : O[i] = Strip(I[k])

\* C13 (as stated): the handler lets a response through its URL test exactly
\* when the path of the URL (what precedes the query) ends in .vtt.
C13_PathEndsInVtt ==
    \A i \in 1..Len(resp) :
        LET u == resp[i].url
            q == {k \in 1..Len(u) : u[k] = "?"}
            n == IF q = {} THEN Len(u)
                 ELSE (CHOOSE k \in q : \A m \in q : k <= m) - 1
            pathEnds == n >= 1 /\ u[n] = ".vtt"
        IN  /\ resp[i].st \in {"reading", "set", "raised"} => pathEnds
            /\ (resp[i].st = "ignored" /\ fut.st = "pending") => ~pathEnds

\* a character the pattern of line 33 does not match
Allowed(c) == c \notin Forbidden

\* C14 as stated: the result is the title without its forbidden characters,
\* cut to its first 150 characters plus "..." when that is longer than 150,
\* and otherwise unchanged; no forbidden character, at most 153 characters.
C14_AsStated ==
    (sanPc = "done")
        => LET c == SelectSeq(sanIn, Allowed)
           IN  /\ \A i \in 1..Len(sanOut) : sanOut[i] \notin Forbidden
               /\ Len(sanOut) <= 153
               /\ Len(c) > 150 => sanOut = SubSeq(c, 1, 150) \o <<".", ".", ".">>
               /\ Len(c) <= 150 => sanOut = c

\* C14 as amended: the same of the title without its forbidden characters
\* and then trimmed of surrounding whitespace.
C14_Sanitized ==
    (sanPc = "done")
        => LET c == Strip(SelectSeq(sanIn, Allowed))
           IN  /\ \A i \in 1..Len(sanOut) : sanOut[i] \notin Forbidden
               /\ Len(sanOut) <= 153
               /\ Len(c) > 150 => sanOut = SubSeq(c, 1, 150) \o <<".", ".", ".">>
               /\ Len(c) <= 150 => sanOut = c

\* a title with forbidden characters and more than 150 others was cut
C14_Witness ==
    /\ sanPc = "done"
    /\ \E i \in 1..Len(sanIn) : sanIn[i] \in Forbidden
    /\ Len(SelectSeq(sanIn, Allowed)) > 150
    /\ Len(sanOut) = 153
    /\ SubSeq(sanOut, 151, 153) = <<".", ".", ".">>

\* C15: the result set holds exactly the records handed back so far by the
\* tasks of the latest submission that ran, or is empty after Clear Results;
\* nothing of an earlier submission is left in it.
C15_OnlyLatestBatch ==
    \/ transcript_files = SelectSeq(outcomes, Truthy)
    \/ batchPc /= "running" /\ transcript_files = <<>>

\* a second submission found records of the first one, discarded them and
\* ended with one record of its own
C15_Witness ==
    /\ nBatches = 2
    /\ dropped
    /\ batchPc = "done"
    /\ Len(urls) = 1
    /\ Len(transcript_files) = 1

\* C16: at most one browser is alive, it is the one of the task in flight,
\* and none is alive when a task is about to launch its own or when no task
\* is in flight.
C16_OneBrowser ==
    /\ browsers <= 1
    /\ browsers = IF browserOpen THEN 1 ELSE 0
    /\ pc \in {"idle", "log57", "launch"} => browsers = 0

\* the second task of a submission has its browser open after the first task
\* failed
C16_Witness ==
    /\ idx = 2
    /\ outcomes /= <<>>
    /\ outcomes[1].kind = "None"
    /\ browserOpen
    /\ browsers = 1

\* C17 (as stated): the callback whose set_result took effect belongs to the
\* first response on the page that passed the URL test.
C17_FirstMatchWins ==
    \A i \in Setters : \A j \in 1..(i - 1) : ~IsCaption(resp[j].url)

\* C18: once a recipe action has timed out, the recipe is not continued (the
\* failing action is a click or hover that was not completed), the capture
\* wait is never entered, nothing is read from the future, and what the task
\* hands back is never a record, whatever the state of the future.
C18_ActionTimeoutFatal ==
    (failure = "action")
        => /\ step < Len(Recipe(branch))
           /\ Recipe(branch)[step + 1].kind \in {"click", "hover"}
           /\ pc \in {"ctxexit", "except", "returned", "raised"}
           /\ ~waited
           /\ vtt_content = <<>>
           /\ ret.kind \in {"exc", "None", "raised"}
           /\ (pc = "returned" => ret = Val("None"))

\* a task returned None after an action timed out although a caption
\* response had already resolved the future
C18_Witness ==
    /\ pc = "returned"
    /\ failure = "action"
    /\ step > 0
    /\ fut.st = "done"
    /\ ret = Val("None")

\* C19 (as stated, for the tasks that return): a task that returns a record
\* has logged no error, a task that returns None has logged exactly one.
C19_OneErrorPerFailure ==
    (pc = "returned")
        => /\ ret.kind = "rec" => errs = <<>>
           /\ ret.kind /= "rec" => Len(errs) = 1
====
